---- MODULE Spec2Model ----
(***************************************************************************)
(* Model of src/main.cpp: the bump-pointer arena allocator                 *)
(* CustomAllocator<T> and the dynamic array CustomContainer<T, Allocator>  *)
(* instantiated with Allocator = CustomAllocator<T>.                       *)
(*                                                                         *)
(* Memory is a flat array of element-sized cells 1..MemSize; a pointer is  *)
(* the address of a cell and NULL is 0.  ::operator new returns the base   *)
(* of a block disjoint from every block that is live at that moment, or    *)
(* fails with std::bad_alloc; which it does is the environment's choice.   *)
(* A cell is <<v>> when it holds the value v and Raw when its              *)
(* value is indeterminate: never constructed, destroyed, or not inside a   *)
(* live block.  Copying an indeterminate cell gives an indeterminate cell. *)
(***************************************************************************)
EXTENDS Integers, Sequences, FiniteSets, TLC

\* ----- bounds -----
MemSize == 40
MaxInitCap == 2
MaxN == 2
MaxCalls == 15
MaxObj == 1
MaxAppends == 12
MaxContainerInitCap == 4
MaxTwoCap == 1
MaxTwoN == 1

\* ----- program constants -----
DefaultCapacity == 10
DefaultInitialCapacity == 10
NULL == 0

Values == {0, 1}
Raw == <<>>
Addr == 1..MemSize

Max(x, y) == IF x >= y THEN x ELSE y

VARIABLES alloc, alloc2, cells, blocks, cont, phase, last, hist

vars == <<alloc, alloc2, cells, blocks, cont, phase, last, hist>>

\* ----- the heap: ::operator new / ::operator delete -----

\* the cells a block of cap elements at base occupies; a zero-sized block
\* still has an address of its own
Footprint(base, cap) == base..(base + Max(cap, 1) - 1)

CanPlace(blks, base, cap) ==
    /\ base \in Addr
    /\ base + Max(cap, 1) - 1 <= MemSize
    /\ \A b \in blks : Footprint(b.base, b.cap) \cap Footprint(base, cap) = {}

\* what ::operator new(cap * sizeof(T)) may return: NULL stands for bad_alloc,
\* otherwise the lowest or the highest free range that fits, so that a new
\* block can lie on either side of the live ones
NewChoices(blks, cap) ==
    LET fits == {base \in Addr : CanPlace(blks, base, cap)}
    IN {NULL} \cup {base \in fits : \/ \A other \in fits : base <= other
                                    \/ \A other \in fits : base >= other}

OperatorNew(blks, base, cap) == blks \cup {[base |-> base, cap |-> cap]}

OperatorDelete(blks, p) == {b \in blks : b.base # p}

Live(blks, p) == \E b \in blks : p \in Footprint(b.base, b.cap)

\* cells of a released block become indeterminate
ReleaseCells(cs, blks, p) ==
    [x \in Addr |->
        IF \E b \in blks : b.base = p /\ x \in Footprint(b.base, b.cap)
        THEN Raw ELSE cs[x]]

ReadCell(cs, p) == IF p \in Addr THEN cs[p] ELSE Raw

\* a store through p; outside every live block the stored value is
\* indeterminate afterwards
WriteCell(cs, blks, p, c) ==
    IF p \in Addr /\ Live(blks, p) THEN [cs EXCEPT ![p] = c] ELSE cs

\* std::uninitialized_move(src, src + n, dst) for a trivially movable T
UninitializedMove(cs, blks, src, n, dst) ==
    [x \in Addr |->
        IF x - dst \in 0..(n - 1) /\ Live(blks, x)
        THEN ReadCell(cs, src + (x - dst))
        ELSE cs[x]]

\* p->~T() for p in [first, first + n)
DestroyRange(cs, first, n) ==
    [x \in Addr |-> IF x - first \in 0..(n - 1) THEN Raw ELSE cs[x]]

\* some p->~T() for p in [first, first + n) is a call on a slot that holds no
\* constructed object or lies in no live block
DestroysDead(cs, blks, first, n) ==
    \E i \in 0..(n - 1) : ~Live(blks, first + i) \/ ReadCell(cs, first + i) = Raw

\* ----- CustomAllocator<T> -----

\* CustomAllocator(size_t capacity = 10), base = result of ::operator new
AllocatorCtor(capacity, base) ==
    [data_ |-> base, capacity_ |-> capacity, used_ |-> 0]

AllocatorRebind_CopiesCursor(src, base) ==
    [data_ |-> base, capacity_ |-> src.capacity_, used_ |-> src.used_]

\* template <typename U> CustomAllocator(const CustomAllocator<U>& other),
\* base = result of ::operator new
AllocatorRebind(src, base) ==
    [data_ |-> base, capacity_ |-> src.capacity_, used_ |-> 0]

\* the copy constructor the compiler generates for CustomAllocator<T>: the
\* class declares none, so the three members are copied
AllocatorCopy(src) ==
    [data_ |-> src.data_, capacity_ |-> src.capacity_, used_ |-> src.used_]

AllocatorEquals_ComparesBuffers(a, b) == a.data_ = b.data_

\* CustomAllocator::operator==
AllocatorEquals(a, b) == TRUE

\* CustomAllocator::operator!=
AllocatorNotEquals(a, b) == FALSE

\* CustomAllocator::clear
AllocatorClear(a, cs) ==
    IF a.data_ # NULL
    THEN [a |-> [a EXCEPT !.used_ = 0], cells |-> DestroyRange(cs, a.data_, a.used_)]
    ELSE [a |-> a, cells |-> cs]

\* CustomAllocator::resize after clear(): cl is the state clear() left, blks1
\* the live blocks, old_data the buffer to release, base the new buffer
AllocatorResizeAdopt(cl, blks1, old_data, new_capacity, base) ==
    [a |-> [cl.a EXCEPT !.data_ = base, !.capacity_ = new_capacity],
     cells |-> IF old_data # NULL THEN ReleaseCells(cl.cells, blks1, old_data)
               ELSE cl.cells,
     blocks |-> IF old_data # NULL THEN OperatorDelete(blks1, old_data)
                ELSE blks1,
     err |-> "none"]

AllocatorResize_ReleasesFirst(a, cs, blks, new_capacity, base) ==
    IF new_capacity <= a.used_
    THEN [a |-> a, cells |-> cs, blocks |-> blks, err |-> "capacity"]
    ELSE IF base = NULL
    THEN [a |-> AllocatorClear(a, cs).a,
          cells |-> ReleaseCells(AllocatorClear(a, cs).cells, blks, a.data_),
          blocks |-> OperatorDelete(blks, a.data_), err |-> "bad_alloc"]
    ELSE AllocatorResizeAdopt(
             AllocatorClear(a, UninitializedMove(cs, OperatorNew(blks, base, new_capacity),
                                                 a.data_, a.used_, base)),
             OperatorNew(blks, base, new_capacity), a.data_, new_capacity, base)

\* CustomAllocator::resize; base = result of ::operator new
AllocatorResize(a, cs, blks, new_capacity, base) ==
    IF new_capacity <= a.used_
    THEN [a |-> a, cells |-> cs, blocks |-> blks, err |-> "capacity"]
    ELSE IF base = NULL
    THEN [a |-> a, cells |-> cs, blocks |-> blks, err |-> "bad_alloc"]
    ELSE AllocatorResizeAdopt(
             AllocatorClear(a, UninitializedMove(cs, OperatorNew(blks, base, new_capacity),
                                                 a.data_, a.used_, base)),
             OperatorNew(blks, base, new_capacity), a.data_, new_capacity, base)

WouldGrow_GrowsWhenFull(a, n) == a.used_ + n >= a.capacity_

WouldGrow_OffByOne(a, n) == a.used_ + n > a.capacity_ + 1

\* the condition of allocate under which it calls resize
WouldGrow(a, n) == a.used_ + n > a.capacity_

GrowthTarget_DoublesOnly(a, n) == a.capacity_ * 2

\* the argument allocate passes to resize
GrowthTarget(a, n) == Max(a.capacity_ * 2, a.used_ + n)

\* CustomAllocator::allocate after its growth check: r is the state the check
\* left, with the error resize threw if it threw
AllocatorBump(r, n) ==
    IF r.err # "none"
    THEN [a |-> r.a, cells |-> r.cells, blocks |-> r.blocks, err |-> r.err,
          result |-> NULL]
    ELSE [a |-> [r.a EXCEPT !.used_ = r.a.used_ + n],
          cells |-> r.cells, blocks |-> r.blocks, err |-> "none",
          result |-> r.a.data_ + r.a.used_]

\* CustomAllocator::allocate
AllocatorAllocate(a, cs, blks, n, base) ==
    AllocatorBump(IF WouldGrow(a, n)
                  THEN AllocatorResize(a, cs, blks, GrowthTarget(a, n), base)
                  ELSE [a |-> a, cells |-> cs, blocks |-> blks, err |-> "none"],
                  n)

AllocatorDeallocate_NoUpperBound(a, cs, blks, p, n) ==
    [a |-> a, cells |-> cs, blocks |-> blks,
     err |-> IF p = NULL THEN "none"
             ELSE IF p < a.data_ THEN "ownership"
             ELSE "none"]

AllocatorDeallocate_Reclaims(a, cs, blks, p, n) ==
    IF p = NULL \/ p < a.data_ \/ p >= a.data_ + a.capacity_ \/ n > a.used_
    THEN [a |-> a, cells |-> cs, blocks |-> blks,
          err |-> IF p = NULL \/ (p >= a.data_ /\ p < a.data_ + a.capacity_)
                  THEN "none" ELSE "ownership"]
    ELSE [a |-> [a EXCEPT !.used_ = a.used_ - n], cells |-> cs, blocks |-> blks,
          err |-> "none"]

\* CustomAllocator::deallocate
AllocatorDeallocate(a, cs, blks, p, n) ==
    [a |-> a, cells |-> cs, blocks |-> blks,
     err |-> IF p = NULL THEN "none"
             ELSE IF p < a.data_ \/ p >= a.data_ + a.capacity_ THEN "ownership"
             ELSE "none"]

\* CustomAllocator::construct
AllocatorConstruct(cs, blks, p, v) == WriteCell(cs, blks, p, <<v>>)

\* CustomAllocator::destroy
AllocatorDestroy(cs, p) == DestroyRange(cs, p, 1)

\* CustomAllocator::~CustomAllocator
AllocatorDtor(a, cs, blks) ==
    [a |-> AllocatorClear(a, cs).a, cells |-> AllocatorClear(a, cs).cells,
     blocks |-> blks]

\* ----- a client driving one allocator directly -----

NoContainer == [data_ |-> NULL, size_ |-> 0, capacity_ |-> 0]

\* the value of alloc2 while the program has no second allocator
NoAllocator == [data_ |-> NULL, capacity_ |-> 0, used_ |-> 0]

\* hist records, of the calls made so far: init_cap, the initial capacity of
\* the container (of alloc, for a client holding two allocators); scen, calls, growths: whether every call so far was an
\* allocate(1) that returned, on an allocator of capacity DefaultCapacity, how
\* many there were and how many of them changed the buffer (for at most
\* MaxCalls calls); sum, the sizes allocated since the latest growth of the
\* allocator; old, the buffer that growth replaced; appended, the values
\* passed to push_back; growths, for a container, the number of push_back
\* calls made with size_ = capacity_; made, how the second allocator alloc2
\* came to be ("none" before, "gone" after its destructor); cap2, the capacity
\* it had then.
\* last records the latest call: op, its size argument n, its pointer argument
\* or result p, the error it raised (err) and, for a call on the container,
\* whether it used a pointer outside the allocator's buffer (stale)

\* the value of last before any call
NoOp == [op |-> "init", n |-> 0, p |-> NULL, err |-> "none", stale |-> FALSE]

ArenaInitCaps == (0..MaxInitCap) \cup {DefaultCapacity}

ArenaInit ==
    \E capacity \in ArenaInitCaps :
      \E base \in NewChoices({}, capacity) \ {NULL} :
        /\ alloc = AllocatorCtor(capacity, base)
        /\ alloc2 = NoAllocator
        /\ blocks = OperatorNew({}, base, capacity)
        /\ cells = [x \in Addr |-> Raw]
        /\ cont = NoContainer
        /\ phase = "live"
        /\ last = NoOp
        /\ hist = [init_cap |-> 0, scen |-> capacity = DefaultCapacity, calls |-> 0, growths |-> 0,
                   sum |-> 0, old |-> NULL, appended |-> <<>>,
                   made |-> "none", cap2 |-> 0]

Allocate(n) ==
    /\ phase = "live"
    /\ \E base \in (IF WouldGrow(alloc, n)
                    THEN NewChoices(blocks, GrowthTarget(alloc, n))
                    ELSE {NULL}) :
         \E r \in {AllocatorAllocate(alloc, cells, blocks, n, base)} :
         LET grew == r.a.data_ # alloc.data_
         IN /\ alloc' = r.a
            /\ cells' = r.cells
            /\ blocks' = r.blocks
            /\ last' = [op |-> "allocate", n |-> n, p |-> r.result, err |-> r.err,
                        stale |-> FALSE]
            /\ hist' = LET scen == hist.scen /\ n = 1 /\ r.err = "none"
                                        /\ hist.calls < MaxCalls
                        IN [hist EXCEPT
                              !.scen = scen,
                              !.calls = IF scen THEN @ + 1 ELSE 0,
                              !.growths = IF ~scen THEN 0
                                          ELSE IF grew THEN @ + 1 ELSE @,
                              !.old = IF grew THEN alloc.data_ ELSE @,
                              !.sum = IF r.err # "none" THEN @
                                      ELSE IF grew THEN n ELSE @ + n]
    /\ UNCHANGED <<alloc2, cont, phase>>

\* pointers a client hands to deallocate: nullptr, the ends of the current
\* buffer and their neighbours, and the base of the buffer that the latest
\* growth replaced
ClientPointers ==
    ({NULL, hist.old, alloc.data_ - 1, alloc.data_,
      alloc.data_ + alloc.capacity_ - 1, alloc.data_ + alloc.capacity_})
    \cap ({NULL} \cup Addr)

Deallocate(p, n) ==
    /\ phase = "live"
    /\ \E r \in {AllocatorDeallocate(alloc, cells, blocks, p, n)} :
          /\ alloc' = r.a
          /\ cells' = r.cells
          /\ blocks' = r.blocks
          /\ last' = [op |-> "deallocate", n |-> n, p |-> p, err |-> r.err,
                      stale |-> FALSE]
    /\ UNCHANGED <<alloc2, cont, phase, hist>>

\* the client constructs objects in the first MaxObj slots of the buffer
Construct(i, v) ==
    /\ phase = "live"
    /\ i < alloc.capacity_
    /\ cells' = AllocatorConstruct(cells, blocks, alloc.data_ + i, v)
    /\ last' = [op |-> "construct", n |-> 0, p |-> alloc.data_ + i, err |-> "none",
                stale |-> FALSE]
    /\ UNCHANGED <<alloc, alloc2, blocks, cont, phase, hist>>

Destroy(i) ==
    /\ phase = "live"
    /\ i < alloc.capacity_
    /\ cells[alloc.data_ + i] # Raw
    /\ cells' = AllocatorDestroy(cells, alloc.data_ + i)
    /\ last' = [op |-> "destroy", n |-> 0, p |-> alloc.data_ + i, err |-> "none",
                stale |-> FALSE]
    /\ UNCHANGED <<alloc, alloc2, blocks, cont, phase, hist>>

DestroyAllocator ==
    /\ phase = "live"
    /\ \E r \in {AllocatorDtor(alloc, cells, blocks)} :
          /\ alloc' = r.a
          /\ cells' = r.cells
          /\ blocks' = r.blocks
    /\ phase' = "destroyed"
    /\ last' = [op |-> "~allocator", n |-> 0, p |-> NULL, err |-> "none",
                stale |-> FALSE]
    /\ UNCHANGED <<alloc2, cont, hist>>

ArenaNext ==
    \/ \E n \in 0..MaxN : Allocate(n)
    \/ \E p \in ClientPointers : Deallocate(p, 1)
    \/ \E i \in 0..(MaxObj - 1), v \in Values : Construct(i, v)
    \/ \E i \in 0..(MaxObj - 1) : Destroy(i)
    \/ DestroyAllocator

SpecArena == ArenaInit /\ [][ArenaNext]_vars

\* ----- CustomContainer<T, CustomAllocator<T>> -----

\* p lies in [data_, data_ + capacity_) of the allocator's current buffer
InBuffer(a, p) == p >= a.data_ /\ p < a.data_ + a.capacity_

RangeInBuffer(a, p, n) == \A i \in 0..(n - 1) : InBuffer(a, p + i)

\* CustomContainer::clear
ContainerClear(c, cs) ==
    [c |-> [c EXCEPT !.size_ = 0], cells |-> DestroyRange(cs, c.data_, c.size_)]

\* stale: some pointer the container read, wrote, destroyed at or passed to
\* deallocate was outside alloc_'s buffer at that moment
StaleInResize(c, a, new_data) ==
    \/ ~RangeInBuffer(a, c.data_, c.size_)
    \/ ~RangeInBuffer(a, new_data, c.size_)
    \/ ~InBuffer(a, c.data_)

\* CustomContainer::resize after alloc_.deallocate: r is the result of
\* allocate, cl the state clear() left, d the result of deallocate
ContainerResizeAdopt(c, r, cl, d, new_capacity) ==
    IF d.err # "none"
    THEN [c |-> cl.c, a |-> d.a, cells |-> d.cells, blocks |-> d.blocks,
          err |-> d.err, stale |-> StaleInResize(c, r.a, r.result)]
    ELSE [c |-> [cl.c EXCEPT !.data_ = r.result, !.capacity_ = new_capacity],
          a |-> d.a, cells |-> d.cells, blocks |-> d.blocks,
          err |-> "none", stale |-> StaleInResize(c, r.a, r.result)]

\* CustomContainer::resize after clear()
ContainerResizeRelease(c, r, cl, new_capacity) ==
    ContainerResizeAdopt(c, r, cl,
        AllocatorDeallocate(r.a, cl.cells, r.blocks, c.data_, c.capacity_),
        new_capacity)

\* CustomContainer::resize after alloc_.allocate returned or threw
ContainerResizeMove(c, r, new_capacity) ==
    IF r.err # "none"
    THEN [c |-> c, a |-> r.a, cells |-> r.cells, blocks |-> r.blocks,
          err |-> r.err, stale |-> FALSE]
    ELSE ContainerResizeRelease(c, r,
             ContainerClear(c, UninitializedMove(r.cells, r.blocks, c.data_, c.size_,
                                                 r.result)),
             new_capacity)

\* CustomContainer::resize; base = result of ::operator new should alloc_ grow
ContainerResize(c, a, cs, blks, new_capacity, base) ==
    ContainerResizeMove(c, AllocatorAllocate(a, cs, blks, new_capacity, base),
                        new_capacity)

\* CustomContainer::push_back after its growth check: r is the state the check
\* left, with the error resize threw if it threw
ContainerConstructBack(r, value) ==
    IF r.err # "none"
    THEN r
    ELSE [c |-> [r.c EXCEPT !.size_ = r.c.size_ + 1],
          a |-> r.a,
          cells |-> AllocatorConstruct(r.cells, r.blocks, r.c.data_ + r.c.size_, value),
          blocks |-> r.blocks,
          err |-> "none",
          stale |-> r.stale \/ ~InBuffer(r.a, r.c.data_ + r.c.size_)]

\* CustomContainer::push_back
ContainerPushBack(c, a, cs, blks, value, base) ==
    ContainerConstructBack(
        IF c.size_ = c.capacity_
        THEN ContainerResize(c, a, cs, blks, c.capacity_ * 2, base)
        ELSE [c |-> c, a |-> a, cells |-> cs, blocks |-> blks,
              err |-> "none", stale |-> FALSE],
        value)

\* ~CustomContainer after alloc_.deallocate returned or threw, then
\* ~CustomAllocator of the member alloc_ unless the exception ended the program
ContainerDtorMembers(c, a, cl, d) ==
    IF d.err # "none"
    THEN [c |-> cl.c, a |-> d.a, cells |-> d.cells, blocks |-> d.blocks,
          err |-> d.err,
          stale |-> ~RangeInBuffer(a, c.data_, c.size_) \/ ~InBuffer(a, c.data_)]
    ELSE [c |-> cl.c,
          a |-> AllocatorDtor(d.a, d.cells, d.blocks).a,
          cells |-> AllocatorDtor(d.a, d.cells, d.blocks).cells,
          blocks |-> AllocatorDtor(d.a, d.cells, d.blocks).blocks,
          err |-> "none",
          stale |-> ~RangeInBuffer(a, c.data_, c.size_) \/ ~InBuffer(a, c.data_)]

\* ~CustomContainer after clear()
ContainerDtorRelease(c, a, blks, cl) ==
    ContainerDtorMembers(c, a, cl,
        AllocatorDeallocate(a, cl.cells, blks, c.data_, c.capacity_))

\* CustomContainer::~CustomContainer
ContainerDtor(c, a, cs, blks) ==
    ContainerDtorRelease(c, a, blks, ContainerClear(c, cs))

\* begin() .. end(): the cells an iteration reads
Iterate(c, cs) == [i \in 1..c.size_ |-> ReadCell(cs, c.data_ + i - 1)]

\* ----- a client driving one container -----

ContainerInitCaps == (0..MaxContainerInitCap) \cup {DefaultInitialCapacity}

\* CustomContainer(size_t initial_capacity = 10): alloc_ is default-constructed,
\* then data_ = alloc_.allocate(initial_capacity)
ContainerInit ==
    \E initial_capacity \in ContainerInitCaps :
      \E base \in NewChoices({}, DefaultCapacity) \ {NULL} :
        LET a0 == AllocatorCtor(DefaultCapacity, base)
            blks0 == OperatorNew({}, base, DefaultCapacity)
            cs0 == [x \in Addr |-> Raw]
        IN \E base2 \in (IF WouldGrow(a0, initial_capacity)
                         THEN NewChoices(blks0, GrowthTarget(a0, initial_capacity)) \ {NULL}
                         ELSE {NULL}) :
             \E r \in {AllocatorAllocate(a0, cs0, blks0, initial_capacity, base2)} :
                /\ alloc = r.a
                /\ alloc2 = NoAllocator
                /\ cells = r.cells
                /\ blocks = r.blocks
                /\ cont = [data_ |-> r.result, size_ |-> 0,
                           capacity_ |-> initial_capacity]
                /\ phase = "live"
                /\ last = NoOp
                /\ hist = [init_cap |-> initial_capacity, scen |-> FALSE, calls |-> 0,
                           growths |-> 0, sum |-> 0, old |-> NULL, appended |-> <<>>,
                           made |-> "none", cap2 |-> 0]

\* the client appends the loop index, as main does, so that the elements are
\* pairwise distinct and a loss or a reordering is visible
NextValue == Len(hist.appended)

PushBack(value) ==
    /\ phase = "live"
    /\ Len(hist.appended) < MaxAppends
    /\ \E base \in (IF cont.size_ = cont.capacity_ /\ WouldGrow(alloc, cont.capacity_ * 2)
                    THEN NewChoices(blocks, GrowthTarget(alloc, cont.capacity_ * 2))
                    ELSE {NULL}) :
         \E r \in {ContainerPushBack(cont, alloc, cells, blocks, value, base)} :
            /\ cont' = r.c
            /\ alloc' = r.a
            /\ cells' = r.cells
            /\ blocks' = r.blocks
            /\ last' = [op |-> "push_back", n |-> 0, p |-> NULL, err |-> r.err,
                        stale |-> r.stale]
            /\ hist' = [hist EXCEPT
                          !.appended = Append(@, value),
                          !.growths = IF cont.size_ = cont.capacity_ THEN @ + 1 ELSE @]
    /\ UNCHANGED <<alloc2, phase>>

DestroyContainer ==
    /\ phase = "live"
    /\ \E r \in {ContainerDtor(cont, alloc, cells, blocks)} :
          /\ cont' = r.c
          /\ alloc' = r.a
          /\ cells' = r.cells
          /\ blocks' = r.blocks
          /\ phase' = IF r.err = "none" THEN "destroyed" ELSE "terminated"
          /\ last' = [op |-> "~container", n |-> 0, p |-> NULL, err |-> r.err,
                      stale |-> r.stale]
    /\ UNCHANGED <<alloc2, hist>>

ContainerNext ==
    \/ \E value \in {NextValue} : PushBack(value)
    \/ DestroyContainer

SpecContainer == ContainerInit /\ [][ContainerNext]_vars

\* ----- a client holding two allocators -----

\* the client stops allocating from an allocator whose capacity exceeds
\* MaxTwoCap, and asks for at most MaxTwoN slots at a time
TwoInitCaps == 0..MaxTwoCap

TwoInit ==
    \E capacity \in TwoInitCaps :
      \E base \in NewChoices({}, capacity) \ {NULL} :
        /\ alloc = AllocatorCtor(capacity, base)
        /\ alloc2 = NoAllocator
        /\ blocks = OperatorNew({}, base, capacity)
        /\ cells = [x \in Addr |-> Raw]
        /\ cont = NoContainer
        /\ phase = "live"
        /\ last = NoOp
        /\ hist = [init_cap |-> capacity, scen |-> FALSE, calls |-> 0, growths |-> 0,
                   sum |-> 0, old |-> NULL, appended |-> <<>>,
                   made |-> "none", cap2 |-> 0]

\* alloc.allocate(n)
AllocateFirst(n) ==
    /\ phase = "live"
    /\ alloc.capacity_ <= MaxTwoCap
    /\ \E base \in (IF WouldGrow(alloc, n)
                    THEN NewChoices(blocks, GrowthTarget(alloc, n))
                    ELSE {NULL}) :
         \E r \in {AllocatorAllocate(alloc, cells, blocks, n, base)} :
            /\ alloc' = r.a
            /\ cells' = r.cells
            /\ blocks' = r.blocks
            /\ last' = [op |-> "allocate", n |-> n, p |-> NULL, err |-> r.err,
                        stale |-> FALSE]
    /\ UNCHANGED <<alloc2, cont, phase, hist>>

\* the client makes a second allocator at most once: by the constructor, by
\* rebinding alloc to another element type, or by copying alloc
MakeSecond(made, a2, blks, err) ==
    /\ alloc2' = a2
    /\ blocks' = blks
    /\ phase' = IF err = "none" THEN "live" ELSE "terminated"
    /\ last' = [op |-> made, n |-> 0, p |-> NULL, err |-> err, stale |-> FALSE]
    /\ hist' = [hist EXCEPT !.made = IF err = "none" THEN made ELSE @,
                            !.cap2 = a2.capacity_]
    /\ UNCHANGED <<alloc, cells, cont>>

\* CustomAllocator<T> second(capacity); the client does not catch bad_alloc
ConstructSecond(capacity) ==
    /\ phase = "live" /\ hist.made = "none"
    /\ \E base \in NewChoices(blocks, capacity) :
         IF base = NULL
         THEN MakeSecond("ctor", NoAllocator, blocks, "bad_alloc")
         ELSE MakeSecond("ctor", AllocatorCtor(capacity, base),
                         OperatorNew(blocks, base, capacity), "none")

\* CustomAllocator<U> second(alloc); the constructor is noexcept, so bad_alloc
\* ends the program
Rebind ==
    /\ phase = "live" /\ hist.made = "none"
    /\ \E base \in NewChoices(blocks, alloc.capacity_) :
         IF base = NULL
         THEN MakeSecond("rebind", NoAllocator, blocks, "bad_alloc")
         ELSE MakeSecond("rebind", AllocatorRebind(alloc, base),
                         OperatorNew(blocks, base, alloc.capacity_), "none")

\* CustomAllocator<T> second(alloc);
Copy ==
    /\ phase = "live" /\ hist.made = "none"
    /\ MakeSecond("copy", AllocatorCopy(alloc), blocks, "none")

SecondExists == hist.made \in {"ctor", "rebind", "copy"}

\* second.allocate(n)
AllocateSecond(n) ==
    /\ phase = "live" /\ SecondExists
    /\ alloc2.capacity_ <= MaxTwoCap
    /\ \E base \in (IF WouldGrow(alloc2, n)
                    THEN NewChoices(blocks, GrowthTarget(alloc2, n))
                    ELSE {NULL}) :
         \E r \in {AllocatorAllocate(alloc2, cells, blocks, n, base)} :
            /\ alloc2' = r.a
            /\ cells' = r.cells
            /\ blocks' = r.blocks
            /\ last' = [op |-> "allocate2", n |-> n, p |-> NULL, err |-> r.err,
                        stale |-> FALSE]
    /\ UNCHANGED <<alloc, cont, phase, hist>>

\* the second allocator goes out of scope
DestroySecond ==
    /\ phase = "live" /\ SecondExists
    /\ \E r \in {AllocatorDtor(alloc2, cells, blocks)} :
          /\ alloc2' = r.a
          /\ cells' = r.cells
          /\ blocks' = r.blocks
    /\ last' = [op |-> "~allocator2", n |-> 0, p |-> NULL, err |-> "none",
                stale |-> FALSE]
    /\ hist' = [hist EXCEPT !.made = "gone"]
    /\ UNCHANGED <<alloc, cont, phase>>

TwoNext ==
    \/ \E n \in 0..MaxTwoN : AllocateFirst(n)
    \/ \E capacity \in TwoInitCaps : ConstructSecond(capacity)
    \/ Rebind
    \/ Copy
    \/ \E n \in 0..MaxTwoN : AllocateSecond(n)
    \/ DestroySecond

SpecTwo == TwoInit /\ [][TwoNext]_vars

\* ----- properties -----

\* the block ::operator new returned for the allocator's current buffer
CurrentBlock == {b \in blocks : b.base = alloc.data_ /\ b.cap = alloc.capacity_}

\* p lies within [buffer, buffer + capacity) of the current buffer
InCurrentBuffer(p) == \E b \in CurrentBlock : p >= b.base /\ p < b.base + b.cap

Wrap(s) == [i \in 1..Len(s) |-> <<s[i]>>]

\* C1: when allocate(n) succeeds, used after the call is used before the
\* call plus n, with or without a growth.
C1_UsedAdvancesByN ==
    [][(last'.op = "allocate" /\ last'.err = "none")
         => alloc'.used_ = alloc.used_ + last'.n]_vars

\* C2: every append succeeds (memory permitting), after the k-th append
\* size() is k and begin()..end() yields the k appended values in order.
C2_AppendsRetained ==
    (last.op = "push_back" /\ last.err # "bad_alloc")
      => /\ last.err = "none"
         /\ cont.size_ = Len(hist.appended)
         /\ Iterate(cont, cells) = Wrap(hist.appended)

\* C3: an append with size == capacity succeeds (memory permitting) and
\* doubles the container capacity, an append with size < capacity leaves the
\* capacity unchanged; 11 appends from initial capacity 10 cause exactly one
\* growth, leave capacity >= 20 and retain the 11 values in order.
C3_GrowthDoubles ==
    /\ [][(last'.op = "push_back" /\ last'.err # "bad_alloc")
            => IF cont.size_ = cont.capacity_
               THEN last'.err = "none" /\ cont'.capacity_ = cont.capacity_ * 2
               ELSE cont'.capacity_ = cont.capacity_]_vars
    /\ []((/\ hist.init_cap = DefaultInitialCapacity
           /\ last.op = "push_back" /\ last.err # "bad_alloc"
           /\ Len(hist.appended) = DefaultInitialCapacity + 1)
            => /\ hist.growths = 1
               /\ cont.capacity_ >= 2 * DefaultInitialCapacity
               /\ Iterate(cont, cells) = Wrap(hist.appended))

\* C4: a growth preserves the previously live elements: after an append that
\* grew, the values that were live before it are at the same indexes of the
\* current storage, and that storage is allocated.
C4_GrowthPreservesElements ==
    [][(last'.op = "push_back" /\ last'.err # "bad_alloc"
        /\ cont.size_ = cont.capacity_)
         => \A i \in 0..(cont.size_ - 1) :
              /\ Live(blocks', cont'.data_ + i)
              /\ ReadCell(cells', cont'.data_ + i) = ReadCell(cells, cont.data_ + i)]_vars

C6_DeallocateReclaimsNothing ==
    /\ [][last'.op = "deallocate"
            => alloc' = alloc /\ cells' = cells /\ blocks' = blocks]_vars
    /\ [](phase = "live" => alloc.used_ = hist.sum)

\* slots were handed out and constructed, then one was deallocated
C6_Witness ==
    /\ last.op = "deallocate" /\ last.err = "none" /\ last.p # NULL
    /\ alloc.used_ > 0
    /\ cells[alloc.data_] # Raw

\* C7: allocate(n) grows exactly when used + n > capacity, to capacity
\* max(capacity * 2, used + n), and otherwise keeps capacity and buffer; from
\* capacity 10, successive allocate(1) calls grow once, at the 11th, to 20.
C7_GrowthRule ==
    /\ [][(last'.op = "allocate" /\ last'.err = "none")
            => IF alloc.used_ + last'.n > alloc.capacity_
               THEN /\ alloc'.data_ # alloc.data_
                    /\ alloc'.capacity_
                         = Max(alloc.capacity_ * 2, alloc.used_ + last'.n)
               ELSE /\ alloc'.data_ = alloc.data_
                    /\ alloc'.capacity_ = alloc.capacity_]_vars
    /\ [](hist.scen
            => IF hist.calls <= DefaultCapacity
               THEN hist.growths = 0 /\ alloc.capacity_ = DefaultCapacity
               ELSE hist.growths = 1 /\ alloc.capacity_ = 2 * DefaultCapacity)

\* fifteen allocate(1) calls on an allocator of capacity 10 have returned
C7_Witness ==
    hist.scen /\ hist.calls >= 15 /\ hist.growths = 1

\* C8: a failed append leaves size, capacity, storage pointer and element
\* values of the container as they were.
C8_FailedAppendChangesNothing ==
    [][(last'.op = "push_back" /\ last'.err # "none")
         => /\ cont' = cont
            /\ \A i \in 0..(cont.size_ - 1) :
                 ReadCell(cells', cont.data_ + i) = ReadCell(cells, cont.data_ + i)]_vars

\* C9: after the allocator's destructor no buffer it obtained is allocated.
C9_DestructorReleasesStorage ==
    phase = "destroyed" => blocks = {}

\* C10: every pointer the container dereferences or passes to deallocate
\* lies within the allocator's buffer that is current at that moment.
C10_NoInvalidatedPointerUse ==
    last.op \in {"push_back", "~container"} => ~last.stale

C12_SizeWithinCapacity ==
    /\ 0 <= cont.size_
    /\ cont.size_ <= cont.capacity_
    /\ \A i \in 0..(cont.size_ - 1) :
         /\ i < cont.capacity_
         /\ InCurrentBuffer(cont.data_ + i)

\* C13: an allocate that raises during growth leaves buffer, capacity, used
\* and every slot as they were and releases nothing; a growth that succeeds
\* releases the old buffer only after the new one holds the occupied slots.
C13_FailedGrowthChangesNothing ==
    [][last'.op = "allocate"
         => IF last'.err # "none"
            THEN alloc' = alloc /\ cells' = cells /\ blocks' = blocks
            ELSE alloc'.data_ # alloc.data_
                   => /\ ~Live(blocks', alloc.data_)
                      /\ \A i \in 0..(alloc.used_ - 1) :
                           /\ Live(blocks', alloc'.data_ + i)
                           /\ cells'[alloc'.data_ + i] = cells[alloc.data_ + i]]_vars

\* ::operator new failed during the growth of an allocator that holds a
\* constructed object
C13_Witness ==
    /\ last.op = "allocate" /\ last.err = "bad_alloc"
    /\ alloc.used_ > 0 /\ cells[alloc.data_] # Raw
    /\ Live(blocks, alloc.data_)

\* C16: allocate never hands out a slot that is already in use; in
\* particular the range returned by an allocate that grew does not overlap the
\* slots [0, used before the call) of the new buffer, to which the occupied
\* slots were relocated, and an allocate that did not grow returns the range
\* that starts at the cursor, past every range returned from that buffer.
C16_NoSlotHandedOutTwice ==
    [][(last'.op = "allocate" /\ last'.err = "none")
         => IF alloc'.data_ = alloc.data_
            THEN last'.p = alloc.data_ + alloc.used_
            ELSE \A i \in 0..(last'.n - 1) :
                   last'.p + i \notin alloc'.data_..(alloc'.data_ + alloc.used_ - 1)]_vars

\* C17: the invalid-growth-target error is unreachable: no allocate raises
\* it, and in every reachable state, for every n, the target allocate would
\* pass to resize exceeds used.
C17_GrowthTargetNeverRejected ==
    /\ last.err # "capacity"
    /\ \A n \in 0..MaxN :
         WouldGrow(alloc, n) => ~(GrowthTarget(alloc, n) <= alloc.used_)

\* an allocator constructed with capacity 0 has grown on its first
\* non-empty allocate
C17_Witness ==
    /\ last.op = "allocate" /\ last.err = "none" /\ last.n = 1
    /\ hist.old # NULL
    /\ alloc.capacity_ = 1 /\ alloc.used_ = 1

\* C18: every destructor call is on a constructed object in live storage, so
\* no object is destroyed twice: in the teardown of the container neither its
\* own clear() nor, after it, the clear() of its allocator meets a slot without
\* an object, and the clear() of a growth destroys only the moved-from
\* elements in storage that is still allocated.
C18_DestroyedOnceWhileConstructed ==
    [][/\ last'.op = "~container"
            => /\ ~DestroysDead(cells, blocks, cont.data_, cont.size_)
               /\ last'.err = "none"
                    => ~DestroysDead(ContainerClear(cont, cells).cells, blocks,
                                     alloc.data_, alloc.used_)
       /\ (last'.op = "push_back" /\ last'.err # "bad_alloc"
           /\ cont.size_ = cont.capacity_)
            => ~DestroysDead(cells, blocks', cont.data_, cont.size_)]_vars

\* C14: rebinding yields an allocator whose capacity is the capacity of the
\* source at that moment, whose used is 0 and whose buffer is freshly
\* obtained and distinct from the buffer of the source; buffer, capacity and
\* used of the source, its slots and every other live block are unchanged.
C14_RebindFreshBuffer ==
    [][(last'.op = "rebind" /\ last'.err = "none")
         => /\ alloc2'.capacity_ = alloc.capacity_
            /\ alloc2'.used_ = 0
            /\ alloc2'.data_ # alloc.data_
            /\ ~Live(blocks, alloc2'.data_)
            /\ Live(blocks', alloc2'.data_)
            /\ blocks \subseteq blocks'
            /\ alloc' = alloc
            /\ cells' = cells]_vars

\* an allocator that has grown and has slots in use was rebound
C14_Witness ==
    /\ last.op = "rebind" /\ last.err = "none"
    /\ alloc.used_ > 0
    /\ alloc.capacity_ > hist.init_cap

\* C15: two allocators of the same element type compare equal, and not
\* unequal, in every reachable pair of states.
C15_AlwaysEqual ==
    hist.made \in {"ctor", "copy"}
      => /\ AllocatorEquals(alloc, alloc2) /\ AllocatorEquals(alloc2, alloc)
         /\ ~AllocatorNotEquals(alloc, alloc2) /\ ~AllocatorNotEquals(alloc2, alloc)

\* two separately constructed allocators have each grown, to different
\* capacities
C15_Witness ==
    /\ hist.made = "ctor"
    /\ alloc.capacity_ > hist.init_cap
    /\ alloc2.capacity_ > hist.cap2
    /\ alloc.capacity_ # alloc2.capacity_
    /\ alloc.data_ # alloc2.data_

\* C19: no buffer is referenced by two allocators, and neither the growth nor
\* the destructor of one allocator releases the buffer of the other.
C19_BuffersNotShared ==
    /\ [](SecondExists => alloc2.data_ # alloc.data_)
    /\ [][/\ (last'.op \in {"allocate2", "~allocator2"} /\ Live(blocks, alloc.data_))
              => Live(blocks', alloc.data_)
          /\ (last'.op = "allocate" /\ SecondExists /\ Live(blocks, alloc2.data_))
              => Live(blocks', alloc2.data_)]_vars

====
